---- MODULE Spec2Model ----
(***************************************************************************)
(* Authentication and verification subsystem of the Student Result         *)
(* Management app (src/app.py): the admin credential store and password    *)
(* verifier, the e-mail OTP challenge, the security question, and the      *)
(* student roll + DOB login.                                               *)
(*                                                                         *)
(* Text that the code trims, lowercases or parses (answers, OTP input,     *)
(* rolls, dates of birth) is a sequence of one-character strings, so that  *)
(* str.strip, str.lower and datetime.strptime are computed character by    *)
(* character.  Text that the code only stores, hashes and compares whole   *)
(* (usernames, passwords, e-mail addresses) is a plain string.             *)
(*                                                                         *)
(* hash_password is SHA-256; it is modelled as the injective tagging       *)
(* <<"sha256", s>>: two digests are equal exactly when their inputs are.   *)
(***************************************************************************)
EXTENDS Integers, Sequences, FiniteSets, TLC

VARIABLES
    admins,            \* table admins: rows [username, password_hash, email]
    admin_security,    \* table admin_security: rows [username, question, answer_hash]
    students,          \* table students: rows [roll, name, class, dob]
    otp_state,         \* st.session_state["otp_<username>"]: username -> [otp, created_at]
    admin_logged_in,   \* st.session_state.admin_logged_in
    admin_username,    \* st.session_state.admin_username
    student_logged_in, \* st.session_state.student_logged_in
    student_roll,      \* st.session_state.student_roll
    now,               \* datetime.now(), in seconds
    smtp_env,          \* the SMTP_* settings of the process environment
    marks,             \* table marks: rows [id, roll, subject, exam_type, marks, max_marks]
    mark_seq,          \* sqlite_sequence of marks: the largest id AUTOINCREMENT has given
    columns,           \* the optional columns the store's tables have
    startup,           \* how the App start section of the last script run ended
    sq_loaded,         \* the usernames u with st.session_state["sq_question_<u>"]
    tally,             \* history: roll -> [count, total, total_possible] of the marks
                       \* added, updated and deleted for it
    last,              \* the last call: its name, arguments, result, and the record
                       \* it found (pre: empty or one record)
    pw_set,            \* history: username -> the password most recently set for it
    answer_set         \* history: username -> the answer most recently given to set_security_question

vars == <<admins, admin_security, students, otp_state, admin_logged_in, admin_username,
          student_logged_in, student_roll, now, smtp_env, marks, mark_seq, columns,
          startup, sq_loaded, tally, last, pw_set, answer_set>>

dbVars == <<admins, admin_security, students>>
adminSessionVars == <<admin_logged_in, admin_username>>
studentSessionVars == <<student_logged_in, student_roll>>
historyVars == <<pw_set, answer_set>>
marksVars == <<marks, mark_seq, tally>>
startupVars == <<columns, startup>>
otherVars == <<marksVars, startupVars, sq_loaded>>

------------------------------------------------------------------------------
(* Bounds                                                                   *)

\* The clock takes the instants 0 and k * OTP_TTL_SECONDS - 1, +0, +1 for
\* k in 1..MaxPeriods.
MaxPeriods == 1
\* The longest run of whitespace put before or after a text input.
MaxPad == 1
\* How many rows the marks table is given in a behaviour.
MaxMarkRows == 2

------------------------------------------------------------------------------
(* Configuration, app.py lines 30-32                                        *)

DEFAULT_ADMIN_EMAIL == "nawanshulahane2005@gmail.com"
OTP_TTL_SECONDS == 300

------------------------------------------------------------------------------
(* Text                                                                     *)

\* The characters str.strip() removes (ASCII whitespace).
WhitespaceChars == {" ", "\t", "\n", "\r"}

UpperChars == <<"A","B","C","D","E","F","G","H","I","J","K","L","M",
                "N","O","P","Q","R","S","T","U","V","W","X","Y","Z">>
LowerChars == <<"a","b","c","d","e","f","g","h","i","j","k","l","m",
                "n","o","p","q","r","s","t","u","v","w","x","y","z">>

DigitChars == <<"0","1","2","3","4","5","6","7","8","9">>

IsDigit(c) == \E i \in 1..10 : DigitChars[i] = c
DigitVal(c) == (CHOOSE i \in 1..10 : DigitChars[i] = c) - 1

\* str.lower() on one character.
LowerChar(c) ==
    IF \E i \in 1..26 : UpperChars[i] = c
    THEN LowerChars[CHOOSE i \in 1..26 : UpperChars[i] = c]
    ELSE c

\* str.lower()
Lower(s) == [i \in 1..Len(s) |-> LowerChar(s[i])]

RECURSIVE LStrip(_)
LStrip(s) ==
    IF s # <<>> /\ s[1] \in WhitespaceChars THEN LStrip(Tail(s)) ELSE s

RECURSIVE RStrip(_)
RStrip(s) ==
    IF s # <<>> /\ s[Len(s)] \in WhitespaceChars
    THEN RStrip(SubSeq(s, 1, Len(s) - 1))
    ELSE s

\* str.strip()
Strip(s) == RStrip(LStrip(s))

\* n copies of the character c.
Rep(c, n) == [i \in 1..n |-> c]

\* The text s as typed: bare, or with up to MaxPad blanks before it, after it,
\* or on both sides.
Padded(s) ==
    {s} \cup UNION {{Rep(" ", k) \o s, s \o Rep(" ", k), Rep(" ", k) \o s \o Rep(" ", k)} :
                      k \in 1..MaxPad}

\* hash_password(password): hashlib.sha256(...).hexdigest()
hash_password(password) == <<"sha256", password>>

------------------------------------------------------------------------------
(* Input domains                                                            *)

Usernames == {"admin", "guest"}
Passwords == {"admin123", "Admin123", "s3cret", ""}
Emails == {"", "head@school.example"}

\* The wall clock's instants.
Instants ==
    {0} \cup {k * OTP_TTL_SECONDS + j : k \in 1..MaxPeriods, j \in {-1, 0, 1}}

\* The draws of the random generator that are followed.
OtpSeeds == {1, 2}

\* The columns that upgrade_marks_table, upgrade_students_table and
\* upgrade_admins_table add to a store made before they existed.
OptionalColumns == {"marks.max_marks", "students.dob", "admins.email"}

NoCall == [op |-> "none", arg1 |-> "", arg2 |-> "", ret |-> FALSE, pre |-> {}]

------------------------------------------------------------------------------
(* Store after create_tables() on a fresh database, session after the       *)
(* session initialization of the first script run.                          *)

Init ==
    /\ admins = {}
    /\ admin_security = {}
    /\ students = {}
    /\ otp_state = <<>>
    /\ admin_logged_in = FALSE
    /\ admin_username = ""
    /\ student_logged_in = FALSE
    /\ student_roll = <<>>
    /\ now = 0
    /\ smtp_env \in BOOLEAN
    /\ marks = {}
    /\ mark_seq = 0
    /\ columns = OptionalColumns
    /\ startup = "ok"
    /\ sq_loaded = {}
    /\ tally = <<>>
    /\ last = NoCall
    /\ pw_set = <<>>
    /\ answer_set = <<>>

------------------------------------------------------------------------------
(* Admin credential store                                                   *)

\* The rows a SELECT ... WHERE username = ? returns.
AdminRows(username) == {r \in admins : r.username = username}

\* An init_default_admin that writes the default account on every run.
init_default_admin_reset ==
    (admins \ AdminRows("admin"))
        \cup {[username |-> "admin", password_hash |-> hash_password("admin123"),
               email |-> DEFAULT_ADMIN_EMAIL]}

\* init_default_admin(): inserts the default account when the table is empty.
init_default_admin_rows ==
    IF Cardinality(admins) = 0
    THEN admins \cup {[username |-> "admin",
                       password_hash |-> hash_password("admin123"),
                       email |-> DEFAULT_ADMIN_EMAIL]}
    ELSE admins

InitDefaultAdmin ==
    /\ admins' = init_default_admin_rows
    /\ pw_set' = IF Cardinality(admins) = 0
                 THEN [u \in DOMAIN pw_set \cup {"admin"} |->
                          IF u = "admin" THEN "admin123" ELSE pw_set[u]]
                 ELSE pw_set
    /\ last' = [op |-> "init_default_admin", arg1 |-> "", arg2 |-> "",
                ret |-> (Cardinality(admins) = 0), pre |-> {}]
    /\ UNCHANGED <<otherVars, admin_security, students, otp_state, adminSessionVars,
                   studentSessionVars, now, smtp_env, answer_set>>

\* verify_admin(username, password): the value returned.
verify_admin(username, password) ==
    IF AdminRows(username) = {}
    THEN FALSE
    ELSE hash_password(password) = (CHOOSE r \in AdminRows(username) : TRUE).password_hash

VerifyAdmin(username, password) ==
    /\ last' = [op |-> "verify_admin", arg1 |-> username, arg2 |-> password,
                ret |-> verify_admin(username, password), pre |-> {}]
    /\ UNCHANGED <<otherVars, dbVars, otp_state, adminSessionVars, studentSessionVars, now,
                   smtp_env, historyVars>>

\* A change_admin_password that writes the row whether or not it exists.
change_admin_password_upsert(username, new_password) ==
    (admins \ AdminRows(username))
        \cup {[username |-> username, password_hash |-> hash_password(new_password),
               email |-> IF AdminRows(username) = {} THEN ""
                         ELSE (CHOOSE r \in AdminRows(username) : TRUE).email]}

\* change_admin_password(username, new_password): UPDATE ... WHERE username = ?
change_admin_password_rows(username, new_password) ==
    {IF r.username = username
     THEN [r EXCEPT !.password_hash = hash_password(new_password)]
     ELSE r : r \in admins}

ChangeAdminPassword(username, new_password) ==
    /\ admins' = change_admin_password_rows(username, new_password)
    /\ pw_set' = [u \in DOMAIN pw_set \cup {username} |->
                     IF u = username THEN new_password ELSE pw_set[u]]
    /\ last' = [op |-> "change_admin_password", arg1 |-> username,
                arg2 |-> new_password, ret |-> FALSE, pre |-> admins]
    /\ UNCHANGED <<otherVars, admin_security, students, otp_state, adminSessionVars,
                   studentSessionVars, now, smtp_env, answer_set>>

\* set_admin_email(username, email): UPDATE ... WHERE username = ?
set_admin_email_rows(username, email) ==
    {IF r.username = username THEN [r EXCEPT !.email = email] ELSE r : r \in admins}

SetAdminEmail(username, email) ==
    /\ admins' = set_admin_email_rows(username, email)
    /\ last' = [op |-> "set_admin_email", arg1 |-> username, arg2 |-> email,
                ret |-> FALSE, pre |-> {}]
    /\ UNCHANGED <<otherVars, admin_security, students, otp_state, adminSessionVars,
                   studentSessionVars, now, smtp_env, historyVars>>

\* get_admin_email(username)
get_admin_email(username) ==
    IF AdminRows(username) = {}
    THEN ""
    ELSE (CHOOSE r \in AdminRows(username) : TRUE).email

------------------------------------------------------------------------------
(* One-time codes                                                           *)

\* _generate_otp(n): the codes random.randint may produce, n digits each.
GenerateOtp(n) ==
    {[i \in 1..n |-> DigitChars[((k + i - 1) % 10) + 1]] : k \in OtpSeeds}

\* send_otp_email(to_email, otp): the values it may return.  Without the four
\* SMTP settings or without an address it returns False; otherwise the send
\* succeeds or raises, and the exception is caught.
send_otp_email(to_email, otp) ==
    IF ~(smtp_env /\ to_email # "") THEN {FALSE} ELSE {TRUE, FALSE}

\* An info text that carries the code whether or not the e-mail was sent.
OtpInfoAlwaysShown(email, sent, otp) ==
    [text |-> "OTP shown below for testing.", email |-> email, otp_shown |-> {otp}]

\* The info text of start_otp_flow: its message, the address it names, and the
\* code appended as " OTP: <otp>" (no code: the empty set).
OtpInfo(email, sent, otp) ==
    [text |-> IF email # ""
              THEN IF sent
                   THEN "OTP sent to <email> (check spam)."
                   ELSE "Failed to send email OTP (SMTP not configured or failed). OTP shown below for testing."
              ELSE "No email set for this admin. OTP shown below for testing.",
     email |-> IF email # "" /\ sent THEN email ELSE "",
     otp_shown |-> IF ~sent THEN {otp} ELSE {}]

\* A start_otp_flow that keeps the challenge the username already has.
start_otp_flow_keep_first(username, otp) ==
    IF username \in DOMAIN otp_state THEN otp_state
    ELSE [u \in DOMAIN otp_state \cup {username} |->
             IF u = username THEN [otp |-> otp, created_at |-> now] ELSE otp_state[u]]

\* The challenge start_otp_flow stores under key "otp_<username>".
start_otp_flow_state(username, otp) ==
    [u \in DOMAIN otp_state \cup {username} |->
        IF u = username THEN [otp |-> otp, created_at |-> now] ELSE otp_state[u]]

\* start_otp_flow(username), the generator having produced otp
StartOtpFlowWith(username, otp) ==
    LET email == get_admin_email(username)
    IN  \E sent \in (IF email # "" THEN send_otp_email(email, otp) ELSE {FALSE}) :
            /\ otp_state' = start_otp_flow_state(username, otp)
            /\ last' = [op |-> "start_otp_flow", arg1 |-> username, arg2 |-> otp,
                        ret |-> [sent |-> sent, email |-> email,
                                 info |-> OtpInfo(email, sent, otp)],
                        pre |-> IF username \in DOMAIN otp_state
                                THEN {otp_state[username]} ELSE {}]
            /\ UNCHANGED <<otherVars, dbVars, adminSessionVars, studentSessionVars, now,
                           smtp_env, historyVars>>

\* start_otp_flow(username)
StartOtpFlow(username) == \E otp \in GenerateOtp(6) : StartOtpFlowWith(username, otp)

\* An expiry test that already refuses the last second of the TTL.
OtpExpiredAtTtl(rec) == now - rec.created_at >= OTP_TTL_SECONDS

\* (datetime.now() - created).total_seconds() > OTP_TTL_SECONDS
OtpExpired(rec) == now - rec.created_at > OTP_TTL_SECONDS

\* A verify_otp that compares the input as typed.
verify_otp_untrimmed(username, otp_input) ==
    /\ username \in DOMAIN otp_state
    /\ now - otp_state[username].created_at <= OTP_TTL_SECONDS
    /\ otp_input = otp_state[username].otp

\* verify_otp(username, otp_input): the value returned.
verify_otp(username, otp_input) ==
    IF username \notin DOMAIN otp_state THEN FALSE
    ELSE LET rec == otp_state[username]
         IN  IF rec.otp = <<>> THEN FALSE
             ELSE IF OtpExpired(rec) THEN FALSE
             ELSE Strip(otp_input) = rec.otp

\* A verify_otp that leaves the challenge in place when the code matches.
verify_otp_state_reusable(username, otp_input) ==
    IF username \in DOMAIN otp_state
       /\ now - otp_state[username].created_at > OTP_TTL_SECONDS
    THEN [u \in DOMAIN otp_state \ {username} |-> otp_state[u]]
    ELSE otp_state

\* A verify_otp that discards the challenge on every attempt.
verify_otp_state_one_attempt(username, otp_input) ==
    [u \in DOMAIN otp_state \ {username} |-> otp_state[u]]

\* verify_otp(username, otp_input): the challenges it leaves in the session.
verify_otp_state(username, otp_input) ==
    IF username \notin DOMAIN otp_state THEN otp_state
    ELSE LET rec == otp_state[username]
             deleted == [u \in DOMAIN otp_state \ {username} |-> otp_state[u]]
         IN  IF rec.otp = <<>> THEN otp_state
             ELSE IF OtpExpired(rec) THEN deleted
             ELSE IF Strip(otp_input) = rec.otp THEN deleted
             ELSE otp_state

VerifyOtp(username, otp_input) ==
    /\ otp_state' = verify_otp_state(username, otp_input)
    /\ last' = [op |-> "verify_otp", arg1 |-> username, arg2 |-> otp_input,
                ret |-> verify_otp(username, otp_input),
                pre |-> IF username \in DOMAIN otp_state
                        THEN {otp_state[username]} ELSE {}]
    /\ UNCHANGED <<otherVars, dbVars, adminSessionVars, studentSessionVars, now, smtp_env,
                   historyVars>>

\* Time passes: the clock moves to a later instant.
TickTo(t) ==
    /\ t > now
    /\ now' = t
    /\ last' = [op |-> "tick", arg1 |-> "", arg2 |-> "", ret |-> FALSE, pre |-> {}]
    /\ UNCHANGED <<otherVars, dbVars, otp_state, adminSessionVars, studentSessionVars, smtp_env,
                   historyVars>>

Tick == \E t \in Instants : TickTo(t)

\* What is typed into "Enter OTP": each code as issued, the code with blanks
\* around it, the code short of its last digit, and nothing.
OtpInputs ==
    UNION {Padded(c) \cup {SubSeq(c, 1, 5)} : c \in GenerateOtp(6)} \cup {<<>>}

NextOtp ==
    \/ InitDefaultAdmin
    \/ SetAdminEmail("admin", "")
    \/ \E u \in Usernames : StartOtpFlow(u)
    \/ \E u \in Usernames, c \in OtpInputs : VerifyOtp(u, c)
    \/ Tick

SpecOtp == Init /\ [][NextOtp]_vars

------------------------------------------------------------------------------
(* Security question                                                        *)

\* The rows a SELECT ... FROM admin_security WHERE username = ? returns.
SecurityRows(username) == {r \in admin_security : r.username = username}

\* A set_security_question that hashes the answer without lowercasing it.
set_security_question_cased(username, question, answer) ==
    (admin_security \ {r \in admin_security : r.username = username})
        \cup {[username |-> username, question |-> question,
               answer_hash |-> hash_password(Strip(answer))]}

\* A set_security_question that inserts a row beside the one it should replace.
set_security_question_insert(username, question, answer) ==
    admin_security
        \cup {[username |-> username, question |-> question,
               answer_hash |-> hash_password(Lower(Strip(answer)))]}

\* set_security_question(username, question, answer): INSERT OR REPLACE of the
\* row keyed by username, the answer hashed after strip() and lower().
set_security_question_rows(username, question, answer) ==
    (admin_security \ SecurityRows(username))
        \cup {[username |-> username, question |-> question,
               answer_hash |-> hash_password(Lower(Strip(answer)))]}

SetSecurityQuestion(username, question, answer) ==
    /\ admin_security' = set_security_question_rows(username, question, answer)
    /\ answer_set' = [u \in DOMAIN answer_set \cup {username} |->
                         IF u = username THEN answer ELSE answer_set[u]]
    /\ last' = [op |-> "set_security_question", arg1 |-> username, arg2 |-> answer,
                ret |-> question, pre |-> SecurityRows(username)]
    /\ UNCHANGED <<otherVars, admins, students, otp_state, adminSessionVars, studentSessionVars,
                   now, smtp_env, pw_set>>

\* get_security_question(username)
get_security_question(username) ==
    IF SecurityRows(username) = {}
    THEN ""
    ELSE (CHOOSE r \in SecurityRows(username) : TRUE).question

GetSecurityQuestion(username) ==
    /\ last' = [op |-> "get_security_question", arg1 |-> username, arg2 |-> "",
                ret |-> get_security_question(username), pre |-> {}]
    /\ UNCHANGED <<otherVars, dbVars, otp_state, adminSessionVars, studentSessionVars, now,
                   smtp_env, historyVars>>

\* verify_security_answer(username, answer): the value returned.
verify_security_answer(username, answer) ==
    IF SecurityRows(username) = {}
    THEN FALSE
    ELSE hash_password(Lower(Strip(answer)))
             = (CHOOSE r \in SecurityRows(username) : TRUE).answer_hash

VerifySecurityAnswer(username, answer) ==
    /\ last' = [op |-> "verify_security_answer", arg1 |-> username, arg2 |-> answer,
                ret |-> verify_security_answer(username, answer),
                pre |-> SecurityRows(username)]
    /\ UNCHANGED <<otherVars, dbVars, otp_state, adminSessionVars, studentSessionVars, now,
                   smtp_env, historyVars>>

Questions == {"Favourite colour?", "First pet?"}

Blue == <<"B", "l", "u", "e">>
BlueLower == <<"b", "l", "u", "e">>
BlueUpper == <<"B", "L", "U", "E">>
BlueSplit == <<"B", "l", " ", "u", "e">>
Rex == <<"R", "e", "x">>

\* The answers registered: as typed, in capitals with blanks around, another.
SetAnswers == {Blue, Rep(" ", MaxPad) \o BlueUpper \o Rep("\t", MaxPad), Rex}

\* The answers tried.
AnswerInputs ==
    Padded(Blue) \cup Padded(BlueUpper) \cup {BlueLower, Rex, BlueSplit, <<>>}

------------------------------------------------------------------------------
(* Students and the student login                                           *)

\* get_conn(): sqlite3.connect(DB_PATH) and nothing else.  SQLite enforces
\* foreign keys only after PRAGMA foreign_keys = ON on the connection, which
\* no connection of the program issues.
foreign_keys == FALSE

\* The rows a SELECT ... FROM students WHERE roll = ? returns.
StudentRows(roll) == {r \in students : r.roll = roll}

\* add_student(roll, name, cls, dob): INSERT OR REPLACE of the row keyed by roll.
add_student_rows(roll, name, cls, dob) ==
    (students \ StudentRows(roll))
        \cup {[roll |-> roll, name |-> name, class |-> cls, dob |-> dob]}

AddStudent(roll, name, cls, dob) ==
    /\ students' = add_student_rows(roll, name, cls, dob)
    /\ last' = [op |-> "add_student", arg1 |-> roll, arg2 |-> dob, ret |-> FALSE,
                pre |-> StudentRows(roll)]
    /\ UNCHANGED <<otherVars, admins, admin_security, otp_state, adminSessionVars,
                   studentSessionVars, now, smtp_env, historyVars>>

\* delete_student(roll): DELETE FROM students WHERE roll = ?
delete_student_rows(roll) == students \ StudentRows(roll)

\* What the DELETE does to the marks table.  The table is declared with
\* FOREIGN KEY (roll) REFERENCES students(roll) ON DELETE CASCADE, and SQLite
\* acts on that clause only on a connection that has foreign keys enabled.
delete_student_marks(roll) ==
    IF foreign_keys /\ StudentRows(roll) # {}
    THEN {m \in marks : m.roll # roll}
    ELSE marks

DeleteStudent(roll) ==
    /\ students' = delete_student_rows(roll)
    /\ marks' = delete_student_marks(roll)
    /\ tally' = IF marks' = marks THEN tally
                ELSE [r \in DOMAIN tally \ {roll} |-> tally[r]]
    /\ last' = [op |-> "delete_student", arg1 |-> roll, arg2 |-> <<>>, ret |-> FALSE,
                pre |-> StudentRows(roll)]
    /\ UNCHANGED <<mark_seq, startupVars, sq_loaded, admins, admin_security, otp_state,
                   adminSessionVars, studentSessionVars, now, smtp_env, historyVars>>

\* The number a run of digit characters denotes.
RECURSIVE IntOf(_)
IntOf(s) ==
    IF s = <<>> THEN 0
    ELSE 10 * IntOf(SubSeq(s, 1, Len(s) - 1)) + DigitVal(s[Len(s)])

IsLeap(y) == (y % 4 = 0 /\ y % 100 # 0) \/ y % 400 = 0

DaysInMonth(y, m) ==
    IF m = 2 THEN (IF IsLeap(y) THEN 29 ELSE 28)
    ELSE IF m \in {4, 6, 9, 11} THEN 30 ELSE 31

NonZeroDigit(c) == IsDigit(c) /\ c # "0"

\* The directive %d of strptime: 3[0-1] | [1-2]\d | 0[1-9] | [1-9] | " "[1-9]
MatchesDay(f) ==
    \/ Len(f) = 2 /\ f[1] = "3" /\ f[2] \in {"0", "1"}
    \/ Len(f) = 2 /\ f[1] \in {"1", "2"} /\ IsDigit(f[2])
    \/ Len(f) = 2 /\ f[1] = "0" /\ NonZeroDigit(f[2])
    \/ Len(f) = 1 /\ NonZeroDigit(f[1])
    \/ Len(f) = 2 /\ f[1] = " " /\ NonZeroDigit(f[2])

\* The directive %m of strptime: 1[0-2] | 0[1-9] | [1-9]
MatchesMonth(f) ==
    \/ Len(f) = 2 /\ f[1] = "1" /\ f[2] \in {"0", "1", "2"}
    \/ Len(f) = 2 /\ f[1] = "0" /\ NonZeroDigit(f[2])
    \/ Len(f) = 1 /\ NonZeroDigit(f[1])

\* The directive %Y of strptime: \d\d\d\d
MatchesYear(f) == Len(f) = 4 /\ \A i \in 1..4 : IsDigit(f[i])

\* datetime.strptime(s, "%d-%m-%Y") returns (TRUE) or raises ValueError
\* (FALSE): the whole of s matches day "-" month "-" year, none of which holds
\* a "-", and the three numbers are a date of the calendar, year 1 or later.
StrptimeAccepts(s) ==
    LET dashes == {i \in 1..Len(s) : s[i] = "-"}
    IN  /\ Cardinality(dashes) = 2
        /\ LET i1 == CHOOSE i \in dashes : \A j \in dashes : i <= j
               i2 == CHOOSE i \in dashes : \A j \in dashes : i >= j
               d == SubSeq(s, 1, i1 - 1)
               m == SubSeq(s, i1 + 1, i2 - 1)
               y == SubSeq(s, i2 + 1, Len(s))
           IN  /\ MatchesDay(d) /\ MatchesMonth(m) /\ MatchesYear(y)
               /\ IntOf(y) >= 1
               /\ IntOf(LStrip(d)) <= DaysInMonth(IntOf(y), IntOf(m))

\* A student login that compares the DOB without the format check.
student_login_unchecked(sroll, sdob) ==
    IF Strip(sroll) = <<>> \/ Strip(sdob) = <<>> THEN "missing"
    ELSE IF StudentRows(Strip(sroll)) = {} THEN "not_found"
    ELSE IF Strip((CHOOSE r \in StudentRows(Strip(sroll)) : TRUE).dob) = Strip(sdob)
         THEN "success"
         ELSE "incorrect"

\* The button "Student Login": what the page reports.
student_login(sroll, sdob) ==
    IF Strip(sroll) = <<>> \/ Strip(sdob) = <<>> THEN "missing"
    ELSE IF ~StrptimeAccepts(Strip(sdob)) THEN "malformed"
    ELSE IF StudentRows(Strip(sroll)) = {} THEN "not_found"
    ELSE IF Strip((CHOOSE r \in StudentRows(Strip(sroll)) : TRUE).dob) = Strip(sdob)
         THEN "success"
         ELSE "incorrect"

StudentLogin(sroll, sdob) ==
    \E outcome \in {student_login(sroll, sdob)} :
        /\ student_logged_in' = IF outcome = "success" THEN TRUE ELSE student_logged_in
        /\ student_roll' = IF outcome = "success" THEN Strip(sroll) ELSE student_roll
        /\ last' = [op |-> "student_login", arg1 |-> sroll, arg2 |-> sdob,
                    ret |-> outcome, pre |-> StudentRows(Strip(sroll))]
        /\ UNCHANGED <<otherVars, dbVars, otp_state, adminSessionVars, now, smtp_env, historyVars>>

Roll101 == <<"1", "0", "1">>
Roll102 == <<"1", "0", "2">>
Rolls == {Roll101, Roll102}
RollInputs == {Roll101, <<" ">> \o Roll101, Roll102, <<>>}

Dob_15_08_2007 == <<"1","5","-","0","8","-","2","0","0","7">>
Dob_2007_08_15 == <<"2","0","0","7","-","0","8","-","1","5">>
Dob_5_8_2007 == <<"5","-","8","-","2","0","0","7">>
Dob_05_08_2007 == <<"0","5","-","0","8","-","2","0","0","7">>
Dob_31_02_2007 == <<"3","1","-","0","2","-","2","0","0","7">>
Dob_15_08_07 == <<"1","5","-","0","8","-","0","7">>

\* The DOB column as add_student and the CSV import may fill it.
StoredDobs ==
    {Dob_15_08_2007, Rep(" ", MaxPad) \o Dob_15_08_2007, Dob_2007_08_15, Dob_5_8_2007, <<>>}

\* What is typed into "Date of Birth".
DobInputs ==
    Padded(Dob_15_08_2007)
        \cup {Dob_2007_08_15, Dob_5_8_2007, Dob_05_08_2007, Dob_31_02_2007,
              Dob_15_08_07, <<>>}

------------------------------------------------------------------------------
(* Marks and the result of a student                                        *)

\* The rows of marks the LEFT JOIN ... ON s.roll = m.roll pairs with a roll.
MarkRows(roll) == {m \in marks : m.roll = roll}

RECURSIVE SumMarks(_)
SumMarks(rows) ==
    IF rows = {} THEN 0
    ELSE LET m == CHOOSE x \in rows : TRUE IN m.marks + SumMarks(rows \ {m})

RECURSIVE SumMaxMarks(_)
SumMaxMarks(rows) ==
    IF rows = {} THEN 0
    ELSE LET m == CHOOSE x \in rows : TRUE IN m.max_marks + SumMaxMarks(rows \ {m})

\* What the history holds for a roll; nothing was ever added for a roll
\* outside its domain.
TallyOf(roll) ==
    IF roll \in DOMAIN tally THEN tally[roll]
    ELSE [count |-> 0, total |-> 0, total_possible |-> 0]

TallyPlus(roll, dcount, dtotal, dpossible) ==
    [r \in DOMAIN tally \cup {roll} |->
        IF r = roll
        THEN [count |-> TallyOf(r).count + dcount,
              total |-> TallyOf(r).total + dtotal,
              total_possible |-> TallyOf(r).total_possible + dpossible]
        ELSE tally[r]]

\* add_mark(roll, subject, exam_type, marks, max_marks): a plain INSERT, the
\* id given by AUTOINCREMENT, no look at the students table.
add_mark_rows(roll, subject, exam_type, mk, max_marks) ==
    marks \cup {[id |-> mark_seq + 1, roll |-> roll, subject |-> subject,
                 exam_type |-> exam_type, marks |-> mk, max_marks |-> max_marks]}

AddMark(roll, subject, exam_type, mk, max_marks) ==
    /\ mark_seq < MaxMarkRows
    /\ marks' = add_mark_rows(roll, subject, exam_type, mk, max_marks)
    /\ mark_seq' = mark_seq + 1
    /\ tally' = TallyPlus(roll, 1, mk, max_marks)
    /\ last' = [op |-> "add_mark", arg1 |-> roll, arg2 |-> <<mk, max_marks>>,
                ret |-> FALSE, pre |-> {}]
    /\ UNCHANGED <<dbVars, otp_state, adminSessionVars, studentSessionVars, now,
                   smtp_env, startupVars, sq_loaded, historyVars>>

\* update_mark(mark_id, marks): UPDATE marks SET marks = ? WHERE id = ?
update_mark_rows(mark_id, mk) ==
    {IF m.id = mark_id THEN [m EXCEPT !.marks = mk] ELSE m : m \in marks}

UpdateMark(mark_id, mk) ==
    /\ marks' = update_mark_rows(mark_id, mk)
    /\ tally' = IF \E m \in marks : m.id = mark_id
                THEN LET old == CHOOSE m \in marks : m.id = mark_id
                     IN  TallyPlus(old.roll, 0, mk - old.marks, 0)
                ELSE tally
    /\ last' = [op |-> "update_mark", arg1 |-> mark_id, arg2 |-> mk, ret |-> FALSE,
                pre |-> {m \in marks : m.id = mark_id}]
    /\ UNCHANGED <<dbVars, otp_state, adminSessionVars, studentSessionVars, now,
                   smtp_env, mark_seq, startupVars, sq_loaded, historyVars>>

\* delete_mark(mark_id): DELETE FROM marks WHERE id = ?
delete_mark_rows(mark_id) == {m \in marks : m.id # mark_id}

DeleteMark(mark_id) ==
    /\ marks' = delete_mark_rows(mark_id)
    /\ tally' = IF \E m \in marks : m.id = mark_id
                THEN LET old == CHOOSE m \in marks : m.id = mark_id
                     IN  TallyPlus(old.roll, -1, -old.marks, -old.max_marks)
                ELSE tally
    /\ last' = [op |-> "delete_mark", arg1 |-> mark_id, arg2 |-> 0, ret |-> FALSE,
                pre |-> {m \in marks : m.id = mark_id}]
    /\ UNCHANGED <<dbVars, otp_state, adminSessionVars, studentSessionVars, now,
                   smtp_env, mark_seq, startupVars, sq_loaded, historyVars>>

\* round(total / total_possible * 100, 2), in hundredths.  The quotient is a
\* binary floating-point number: away from a tie the result is the nearest
\* hundredth, and at an exact tie (23 / 160 * 100 = 14.375) the rounding
\* error of the division decides between the two neighbours, so both are
\* possible results here.
Round2(total, total_possible) ==
    LET neg == total_possible < 0
        num == IF neg THEN -(total * 10000) ELSE total * 10000
        den == IF neg THEN -total_possible ELSE total_possible
        fl  == num \div den
        r   == num - fl * den
    IN  IF 2 * r < den THEN {fl}
        ELSE IF 2 * r > den THEN {fl + 1}
        ELSE {fl, fl + 1}

\* percentage = round(...) if total_possible else 0
Percentage(total, total_possible) ==
    IF total_possible # 0 THEN Round2(total, total_possible) ELSE {0}

\* What a Python function returns: None, or a value.
None == <<>>
Some(v) == <<v>>

\* get_student_result(roll): the set of values the call can return.  The
\* joined rows stand for the list under "marks"; percentage is in hundredths.
get_student_result(roll) ==
    IF StudentRows(roll) = {} THEN {None}
    ELSE LET s == CHOOSE r \in StudentRows(roll) : TRUE
             marks_rows == MarkRows(roll)
             total == IF marks_rows # {} THEN SumMarks(marks_rows) ELSE 0
             total_possible == IF marks_rows # {} THEN SumMaxMarks(marks_rows) ELSE 0
         IN  {Some([student |-> [roll |-> s.roll, name |-> s.name, class |-> s.class],
                    marks |-> marks_rows,
                    total |-> total,
                    total_possible |-> total_possible,
                    count |-> Cardinality(marks_rows),
                    percentage |-> p]) : p \in Percentage(total, total_possible)}

GetStudentResult(roll) ==
    /\ \E res \in get_student_result(roll) :
           last' = [op |-> "get_student_result", arg1 |-> roll, arg2 |-> <<>>,
                    ret |-> res, pre |-> StudentRows(roll)]
    /\ UNCHANGED <<dbVars, otp_state, adminSessionVars, studentSessionVars, now,
                   smtp_env, otherVars, historyVars>>

\* The (marks, max_marks) pairs that reach add_mark: the Admin Panel form
\* takes marks 0..2000 and max_marks 1..2000; a Marks CSV row passes
\* int(row['marks']) and int(row['max_marks']) through unchecked.
FormMarks == {<<72, 80>>, <<42, 50>>}
CsvMarks == {<<10, -50>>}
MarkInputs == FormMarks \cup CsvMarks
NewMarks == {0}

------------------------------------------------------------------------------
(* The pages: one script run for each button pressed                        *)

\* App start, lines 464-468, run on the store as it is: how it ends, and the
\* admins rows and the columns it leaves.  create_tables only makes the tables
\* that are missing.  init_default_admin comes next, and on an empty admins
\* table its INSERT names the email column: without that column SQLite raises
\* OperationalError, the script run ends there and no upgrade_..._table runs.
AppStart ==
    IF admins = {} /\ "admins.email" \notin columns
    THEN [outcome |-> "error", admins |-> admins, columns |-> columns]
    ELSE [outcome |-> "ok", admins |-> init_default_admin_rows,
          columns |-> columns \cup OptionalColumns]

\* A script run in which no button is pressed: the first load of the app, a
\* change of page, the rerun after a login.
Rerun ==
    /\ admins' = AppStart.admins
    /\ columns' = AppStart.columns
    /\ startup' = AppStart.outcome
    /\ pw_set' = IF admins' # admins
                 THEN [u \in DOMAIN pw_set \cup {"admin"} |->
                          IF u = "admin" THEN "admin123" ELSE pw_set[u]]
                 ELSE pw_set
    /\ last' = [op |-> "app_start", arg1 |-> "", arg2 |-> "",
                ret |-> (admins' # admins), pre |-> admins]
    /\ UNCHANGED <<admin_security, students, otp_state, adminSessionVars,
                   studentSessionVars, now, smtp_env, marksVars, sq_loaded, answer_set>>

\* A button can be pressed once a script run has drawn it.  The run the press
\* starts goes through App start again before it reaches the page, which
\* after a completed run finds an account and every column and changes
\* nothing.
Ready ==
    /\ startup = "ok"
    /\ AppStart = [outcome |-> "ok", admins |-> admins, columns |-> columns]

\* A login that ends the session of the admin when it fails.
AdminSessionResetOnFail(ok, username) ==
    /\ admin_logged_in' = ok
    /\ admin_username' = IF ok THEN username ELSE ""

\* What a login does to the session of the admin.
AdminSession(ok, username) ==
    /\ admin_logged_in' = IF ok THEN TRUE ELSE admin_logged_in
    /\ admin_username' = IF ok THEN username ELSE admin_username

\* Sidebar, "Login (quick)": drawn while no admin is logged in.
LoginQuick(u, p) ==
    /\ Ready
    /\ ~admin_logged_in
    /\ AdminSession(verify_admin(u, p), u)
    /\ last' = [op |-> "login_quick", arg1 |-> u, arg2 |-> p,
                ret |-> verify_admin(u, p), pre |-> {}]
    /\ UNCHANGED <<dbVars, otp_state, studentSessionVars, now, smtp_env, otherVars,
                   historyVars>>

\* Admin Login, "Login with password"
LoginPassword(username, password) ==
    /\ Ready
    /\ AdminSession(verify_admin(username, password), username)
    /\ last' = [op |-> "login_password", arg1 |-> username, arg2 |-> password,
                ret |-> verify_admin(username, password), pre |-> {}]
    /\ UNCHANGED <<dbVars, otp_state, studentSessionVars, now, smtp_env, otherVars,
                   historyVars>>

\* "Send OTP" goes on to start_otp_flow for a username that is not empty.
SendOtpAnyUsername(otp_user) == TRUE
SendOtpAllowed(otp_user) == otp_user # ""

\* Admin Login, "Send OTP"
SendOtp(otp_user, otp) ==
    /\ Ready
    /\ IF SendOtpAllowed(otp_user)
       THEN StartOtpFlowWith(otp_user, otp)
       ELSE /\ last' = [op |-> "send_otp_refused", arg1 |-> otp_user, arg2 |-> "",
                        ret |-> FALSE, pre |-> {}]
            /\ UNCHANGED <<dbVars, otp_state, adminSessionVars, studentSessionVars, now,
                           smtp_env, otherVars, historyVars>>

\* Admin Login, "Verify OTP"
LoginOtp(otp_user, otp_input) ==
    /\ Ready
    /\ otp_state' = verify_otp_state(otp_user, otp_input)
    /\ AdminSession(verify_otp(otp_user, otp_input), otp_user)
    /\ last' = [op |-> "login_otp", arg1 |-> otp_user, arg2 |-> otp_input,
                ret |-> verify_otp(otp_user, otp_input),
                pre |-> IF otp_user \in DOMAIN otp_state
                        THEN {otp_state[otp_user]} ELSE {}]
    /\ UNCHANGED <<dbVars, studentSessionVars, now, smtp_env, otherVars, historyVars>>

\* Admin Login, "Get security question": the question, when there is one, is
\* kept in the session under "sq_question_<sq_user>".
LoadSecurityQuestion(sq_user) ==
    /\ Ready
    /\ sq_loaded' = IF get_security_question(sq_user) # ""
                    THEN sq_loaded \cup {sq_user} ELSE sq_loaded
    /\ last' = [op |-> "load_security_question", arg1 |-> sq_user, arg2 |-> "",
                ret |-> get_security_question(sq_user), pre |-> {}]
    /\ UNCHANGED <<dbVars, otp_state, adminSessionVars, studentSessionVars, now,
                   smtp_env, marksVars, startupVars, historyVars>>

\* Admin Login, "Verify Security Answer": drawn once the question is loaded.
LoginSecurityAnswer(sq_user, sq_answer) ==
    /\ Ready
    /\ sq_user \in sq_loaded
    /\ AdminSession(verify_security_answer(sq_user, sq_answer), sq_user)
    /\ last' = [op |-> "login_security_answer", arg1 |-> sq_user, arg2 |-> sq_answer,
                ret |-> verify_security_answer(sq_user, sq_answer),
                pre |-> SecurityRows(sq_user)]
    /\ UNCHANGED <<dbVars, otp_state, studentSessionVars, now, smtp_env, otherVars,
                   historyVars>>

\* A panel that is drawn for everybody.
AdminPanelAlwaysOpen == TRUE

\* Admin Panel: its controls are drawn only for a logged-in admin.
AdminPanelOpen == admin_logged_in

\* A press in the Admin Panel that ends in st.error and changes nothing.
PanelRefuses(op, arg1, arg2) ==
    /\ last' = [op |-> op, arg1 |-> arg1, arg2 |-> arg2, ret |-> FALSE, pre |-> {}]
    /\ UNCHANGED <<dbVars, otp_state, adminSessionVars, studentSessionVars, now,
                   smtp_env, otherVars, historyVars>>

\* Admin Panel, "Add / Update Student"
PanelAddStudent(roll, name, cls, dob) ==
    /\ Ready
    /\ AdminPanelOpen
    /\ IF roll = <<>> \/ name = "" \/ cls = ""
       THEN PanelRefuses("add_student_required", roll, dob)
       ELSE IF Strip(dob) # <<>> /\ ~StrptimeAccepts(Strip(dob))
       THEN PanelRefuses("add_student_malformed", roll, dob)
       ELSE AddStudent(Strip(roll), name, cls, Strip(dob))

\* Admin Panel, "Add Mark"
PanelAddMark(mroll, subject, exam_type, marks_val, max_marks_val) ==
    /\ Ready
    /\ AdminPanelOpen
    /\ marks_val \in 0..2000
    /\ max_marks_val \in 1..2000
    /\ IF mroll = <<>> \/ subject = "" \/ exam_type = ""
       THEN PanelRefuses("add_mark_required", mroll, <<marks_val, max_marks_val>>)
       ELSE AddMark(Strip(mroll), subject, exam_type, marks_val, max_marks_val)

\* Admin Panel, "Update Mark"
PanelUpdateMark(mark_id, new_mark) ==
    /\ Ready
    /\ AdminPanelOpen
    /\ mark_id >= 1
    /\ new_mark \in 0..2000
    /\ UpdateMark(mark_id, new_mark)

\* Admin Panel, "Delete Mark"
PanelDeleteMark(mark_id) ==
    /\ Ready
    /\ AdminPanelOpen
    /\ mark_id >= 1
    /\ DeleteMark(mark_id)

\* Admin Panel, "Delete Student"
PanelDeleteStudent(del_roll) ==
    /\ Ready
    /\ AdminPanelOpen
    /\ IF Strip(del_roll) # <<>>
       THEN DeleteStudent(Strip(del_roll))
       ELSE PanelRefuses("delete_student_required", del_roll, <<>>)

\* Admin Panel, "Import CSV" of a Marks CSV of one row.
PanelImportMarks(roll, subject, exam_type, mk, max_marks) ==
    /\ Ready
    /\ AdminPanelOpen
    /\ AddMark(roll, subject, exam_type, mk, max_marks)

\* Admin Panel, "Import CSV" of a Students CSV of one row.
PanelImportStudent(roll, name, cls, dob) ==
    /\ Ready
    /\ AdminPanelOpen
    /\ AddStudent(roll, name, cls, dob)

\* Admin Panel, "Save Email"
PanelSaveEmail(new_email) ==
    /\ Ready
    /\ AdminPanelOpen
    /\ SetAdminEmail(admin_username, new_email)

\* Admin Panel, "Save Security Question"
PanelSaveSecurityQuestion(sq_q, sq_a) ==
    /\ Ready
    /\ AdminPanelOpen
    /\ IF sq_q # "" /\ Strip(sq_a) # <<>>
       THEN SetSecurityQuestion(admin_username, sq_q, Strip(sq_a))
       ELSE PanelRefuses("save_security_question_required", sq_q, sq_a)

\* Admin Panel, "Change password"
PanelChangePassword(old, new) ==
    /\ Ready
    /\ AdminPanelOpen
    /\ IF verify_admin(admin_username, old)
       THEN ChangeAdminPassword(admin_username, new)
       ELSE PanelRefuses("change_password_refused", old, new)

\* Admin Panel, "Logout"
Logout ==
    /\ Ready
    /\ AdminPanelOpen
    /\ admin_logged_in' = FALSE
    /\ admin_username' = ""
    /\ last' = [op |-> "logout", arg1 |-> admin_username, arg2 |-> "", ret |-> FALSE,
                pre |-> {}]
    /\ UNCHANGED <<dbVars, otp_state, studentSessionVars, now, smtp_env, otherVars,
                   historyVars>>

\* Student Login, "Student Login"
PageStudentLogin(sroll, sdob) ==
    /\ Ready
    /\ StudentLogin(sroll, sdob)

\* Student Dashboard: the result is shown only to a logged-in student.
DashboardOpen == student_logged_in

\* Student Dashboard, drawn: get_student_result of the roll in the session.
StudentDashboard ==
    /\ Ready
    /\ DashboardOpen
    /\ GetStudentResult(student_roll)

\* Student Dashboard, "Logout Student": the button is drawn under the result,
\* so only when there is one.
LogoutStudent ==
    /\ Ready
    /\ DashboardOpen
    /\ get_student_result(student_roll) # {None}
    /\ student_logged_in' = FALSE
    /\ student_roll' = <<>>
    /\ last' = [op |-> "logout_student", arg1 |-> student_roll, arg2 |-> <<>>,
                ret |-> FALSE, pre |-> {}]
    /\ UNCHANGED <<dbVars, otp_state, adminSessionVars, now, smtp_env, otherVars,
                   historyVars>>

\* The stores the app may be started on: none yet (create_tables makes every
\* table with every column), or one that an earlier version of the program
\* left, whose tables lack some of the optional columns and whose admins
\* table is empty or holds an account with a password of its own.  A row of a
\* table without the email column has the '' the ALTER TABLE will give it.
PriorAdmins ==
    {{}, {[username |-> "admin", password_hash |-> hash_password("s3cret"),
           email |-> ""]}}

InitApp ==
    /\ columns \in SUBSET OptionalColumns
    /\ admins \in PriorAdmins
    /\ columns # OptionalColumns \/ admins = {}
    /\ pw_set = [u \in {r.username : r \in admins} |-> "s3cret"]
    /\ startup = "none"
    /\ admin_security = {}
    /\ students = {}
    /\ otp_state = <<>>
    /\ admin_logged_in = FALSE
    /\ admin_username = ""
    /\ student_logged_in = FALSE
    /\ student_roll = <<>>
    /\ now = 0
    /\ smtp_env = FALSE
    /\ marks = {}
    /\ mark_seq = 0
    /\ sq_loaded = {}
    /\ tally = <<>>
    /\ last = NoCall
    /\ answer_set = <<>>

\* What is typed into the pages.
AppPasswords == {"admin123", "s3cret"}
AppOtp == [i \in 1..6 |-> DigitChars[i + 1]]
AppOtpLogins == {<<"guest", AppOtp>>, <<"guest", <<>>>>, <<"", AppOtp>>}
AppInstants == {OTP_TTL_SECONDS + 1}
AppAnswers == {Blue, Rex}
AppRolls == {Roll101, <<>>}
AppLogins ==
    {<<"admin", "admin123">>, <<"guest", "admin123">>, <<"", "admin123">>}
AppStudentLogins ==
    {<<Roll101, Dob_15_08_2007>>, <<Roll101, Dob_05_08_2007>>, <<<<>>, Dob_15_08_2007>>}

NextApp ==
    \/ Rerun
    \/ LoginQuick("admin", "admin123")
    \/ \E up \in AppLogins : LoginPassword(up[1], up[2])
    \/ \E u \in {"guest", ""} : SendOtp(u, AppOtp)
    \/ \E uc \in AppOtpLogins : LoginOtp(uc[1], uc[2])
    \/ LoadSecurityQuestion("admin")
    \/ \E a \in AppAnswers : LoginSecurityAnswer("admin", a)
    \/ \E r \in AppRolls : PanelAddStudent(r, "Aman", "10A", Dob_15_08_2007)
    \/ PanelAddMark(Roll101, "Math", "Unit Test", 72, 80)
    \/ PanelUpdateMark(1, 0)
    \/ PanelDeleteMark(1)
    \/ \E r \in AppRolls : PanelDeleteStudent(r)
    \/ PanelImportMarks(Roll101, "Math", "Unit Test", 72, 80)
    \/ PanelImportStudent(Roll101, "Aman", "10A", Dob_15_08_2007)
    \/ PanelSaveEmail("")
    \/ PanelSaveSecurityQuestion("Favourite colour?", Blue)
    \/ \E old \in AppPasswords : PanelChangePassword(old, CHOOSE new \in AppPasswords : new # old)
    \/ Logout
    \/ \E rd \in AppStudentLogins : PageStudentLogin(rd[1], rd[2])
    \/ StudentDashboard
    \/ LogoutStudent

\* Every page, the clock standing still.
Spec == InitApp /\ [][NextApp]_vars

\* The login pages with what sets a login up, and time passing.
NextLogin ==
    \/ Rerun
    \/ LoginQuick("admin", "admin123")
    \/ \E up \in AppLogins : LoginPassword(up[1], up[2])
    \/ \E u \in {"admin", "guest", ""} : SendOtp(u, AppOtp)
    \/ \E uc \in AppOtpLogins \cup {<<"admin", AppOtp>>} : LoginOtp(uc[1], uc[2])
    \/ \E u \in {"admin", "guest"} : LoadSecurityQuestion(u)
    \/ \E u \in {"admin", "guest"}, a \in AppAnswers : LoginSecurityAnswer(u, a)
    \/ PanelAddStudent(Roll101, "Aman", "10A", Dob_15_08_2007)
    \/ PanelDeleteStudent(Roll101)
    \/ PanelSaveSecurityQuestion("Favourite colour?", Blue)
    \/ \E old \in AppPasswords : PanelChangePassword(old, CHOOSE new \in AppPasswords : new # old)
    \/ Logout
    \/ \E rd \in AppStudentLogins : PageStudentLogin(rd[1], rd[2])
    \/ LogoutStudent
    \/ \E t \in AppInstants : TickTo(t)

SpecLogin == InitApp /\ [][NextLogin]_vars

------------------------------------------------------------------------------
(* Specifications                                                           *)

NextPassword ==
    \/ InitDefaultAdmin
    \/ \E u \in Usernames, p \in Passwords : VerifyAdmin(u, p)
    \/ \E u \in Usernames, p \in Passwords : ChangeAdminPassword(u, p)
    \/ \E u \in Usernames, e \in Emails : SetAdminEmail(u, e)

SpecPassword == Init /\ [][NextPassword]_vars

NextSecurity ==
    \/ \E u \in Usernames, q \in Questions, a \in SetAnswers : SetSecurityQuestion(u, q, a)
    \/ \E u \in Usernames : GetSecurityQuestion(u)
    \/ \E u \in Usernames, a \in AnswerInputs : VerifySecurityAnswer(u, a)
    \/ Tick

SpecSecurity == Init /\ [][NextSecurity]_vars

NextStudent ==
    \/ \E r \in RollInputs, d \in DobInputs : StudentLogin(r, d)
    \/ \E r \in Rolls, d \in StoredDobs : AddStudent(r, "Aman", "10A", d)
    \/ \E r \in Rolls : DeleteStudent(r)

SpecStudent == Init /\ [][NextStudent]_vars

NextMarks ==
    \/ \E r \in Rolls : AddStudent(r, "Aman", "10A", Dob_15_08_2007)
    \/ \E r \in Rolls : DeleteStudent(r)
    \/ \E r \in Rolls, mm \in MarkInputs : AddMark(r, "Math", "Unit Test", mm[1], mm[2])
    \/ \E i \in 1..MaxMarkRows, mk \in NewMarks : UpdateMark(i, mk)
    \/ \E i \in 1..MaxMarkRows : DeleteMark(i)
    \/ \E r \in Rolls : GetStudentResult(r)

SpecMarks == Init /\ [][NextMarks]_vars

------------------------------------------------------------------------------
(* Properties of the password verifier                                      *)

AccountNames(rows) == {r.username : r \in rows}

\* C1: verify_admin(username, password) returns true exactly when an account
\* with that username exists and password is the one most recently set for the
\* username (at creation or by change_admin_password); it is false for every
\* other password and for every username without an account; and
\* change_admin_password never adds an account.
C1_PasswordTracksLatest ==
    /\ \A u \in Usernames, p \in Passwords :
          verify_admin(u, p) <=>
              (u \in AccountNames(admins) /\ u \in DOMAIN pw_set /\ pw_set[u] = p)
    /\ last.op = "verify_admin" =>
          (last.ret <=>
              (last.arg1 \in AccountNames(admins) /\ last.arg1 \in DOMAIN pw_set
               /\ pw_set[last.arg1] = last.arg2))
    /\ last.op = "change_admin_password" =>
          AccountNames(admins) = AccountNames(last.pre)

\* A changed password verifies, after a change aimed at a username without an
\* account.
C1_Witness ==
    /\ last.op = "verify_admin" /\ last.ret /\ last.arg2 = "s3cret"
    /\ "guest" \in DOMAIN pw_set

------------------------------------------------------------------------------
(* Properties of the one-time code                                          *)

LastRec == CHOOSE r \in last.pre : TRUE
\* Seconds between the issuance of the challenge the last call found and the call.
LastAge == now - LastRec.created_at
IsCode(c) == Len(c) = 6 /\ \A i \in 1..Len(c) : IsDigit(c[i])

\* C2: a challenge is stamped with the time of its issuance; the correct code
\* succeeds when at most OTP_TTL_SECONDS have passed since then and fails
\* when more have; a verify made after expiry, whatever its code, fails and
\* discards the challenge; and without a challenge every verify fails.
C2_OtpExpiry ==
    /\ last.op = "start_otp_flow" => otp_state[last.arg1].created_at = now
    /\ (last.op = "verify_otp" /\ last.pre # {} /\ last.arg2 = LastRec.otp) =>
          (last.ret <=> LastAge <= 300)
    /\ (last.op = "verify_otp" /\ last.pre # {} /\ LastAge > 300) =>
          (~last.ret /\ last.arg1 \notin DOMAIN otp_state)
    /\ \A u \in Usernames :
          u \notin DOMAIN otp_state => \A c \in OtpInputs : ~verify_otp(u, c)

\* The correct code is refused 301 seconds after issuance.
C2_Witness ==
    /\ last.op = "verify_otp" /\ last.pre # {}
    /\ last.arg2 = LastRec.otp /\ LastAge = 301 /\ ~last.ret
    /\ last.arg1 \notin DOMAIN otp_state

\* C3: a successful verify_otp removes the username's challenge, after which
\* every verify_otp for the username fails, whatever the code; a verify_otp
\* that finds no challenge fails and leaves none; and a challenge appears for
\* a username only by start_otp_flow for that username.
C3_OtpSingleUse ==
    /\ [](/\ (last.op = "verify_otp" /\ last.ret) =>
                (/\ last.arg1 \notin DOMAIN otp_state
                 /\ \A c \in OtpInputs : ~verify_otp(last.arg1, c))
          /\ (last.op = "verify_otp" /\ last.pre = {}) =>
                (~last.ret /\ last.arg1 \notin DOMAIN otp_state))
    /\ [][\A u \in Usernames :
            (u \notin DOMAIN otp_state /\ u \in DOMAIN otp_state') =>
                (last'.op = "start_otp_flow" /\ last'.arg1 = u)]_vars

\* A code was accepted and its challenge is gone.
C3_Witness ==
    /\ last.op = "verify_otp" /\ last.ret
    /\ last.arg1 \notin DOMAIN otp_state

\* C4 as stated: after a second start_otp_flow for a username, verify_otp with
\* the code of the first challenge fails.
C4_FirstCodeAlwaysFails ==
    (last.op = "start_otp_flow" /\ last.pre # {}) =>
        ~verify_otp(last.arg1, LastRec.otp)

\* C4, amended: after start_otp_flow the username has one challenge, the one
\* just issued: it holds the new code and the time of this call, whatever
\* challenge was there before; the code of the replaced challenge fails
\* whenever it differs from the new code.
C4_OtpReissue ==
    last.op = "start_otp_flow" =>
        /\ last.arg1 \in DOMAIN otp_state
        /\ otp_state[last.arg1] = [otp |-> last.arg2, created_at |-> now]
        /\ (last.pre # {} /\ LastRec.otp # last.arg2) =>
              \A c \in Padded(LastRec.otp) : ~verify_otp(last.arg1, c)

\* A challenge was replaced by one with another code, issued later.
C4_Witness ==
    /\ last.op = "start_otp_flow" /\ last.pre # {}
    /\ LastRec.otp # last.arg2 /\ LastRec.created_at < now

\* C5: a verify_otp within the TTL whose code, blanks aside, is not the stored
\* one fails and leaves the challenge as it was, code and issuance time; no
\* count of attempts is kept, and the correct code still succeeds.
C5_OtpRetry ==
    (last.op = "verify_otp" /\ last.pre # {} /\ LastAge <= OTP_TTL_SECONDS
     /\ Strip(last.arg2) # LastRec.otp) =>
        /\ ~last.ret
        /\ last.arg1 \in DOMAIN otp_state
        /\ otp_state[last.arg1] = LastRec
        /\ verify_otp(last.arg1, LastRec.otp)

\* A wrong code was refused at the last second of the TTL.
C5_Witness ==
    /\ last.op = "verify_otp" /\ last.pre # {} /\ LastAge = OTP_TTL_SECONDS
    /\ Strip(last.arg2) # LastRec.otp /\ last.arg2 # <<>>
    /\ ~last.ret

\* C6: whatever the delivery outcome, start_otp_flow leaves a challenge for
\* the username holding the generated code, six digits; the info text carries
\* the code exactly when the e-mail was not sent; and an e-mail is sent only
\* to a registered address with the SMTP settings present.
C6_OtpIssuance ==
    last.op = "start_otp_flow" =>
        /\ last.arg1 \in DOMAIN otp_state
        /\ otp_state[last.arg1].otp = last.arg2
        /\ IsCode(last.arg2)
        /\ last.ret.sent => last.ret.info.otp_shown = {}
        /\ ~last.ret.sent => last.ret.info.otp_shown = {last.arg2}
        /\ last.ret.sent => (smtp_env /\ last.ret.email # "")

\* The send failed with the settings present and an address registered, and
\* the code is in the info text.
C6_Witness ==
    /\ last.op = "start_otp_flow" /\ ~last.ret.sent
    /\ smtp_env /\ last.ret.email # ""
    /\ last.ret.info.otp_shown = {otp_state[last.arg1].otp}

\* C7 as stated: with a live, unexpired challenge verify_otp succeeds exactly
\* when the input equals the stored code as a string.
C7_ExactMatch ==
    (last.op = "verify_otp" /\ last.pre # {} /\ LastAge <= OTP_TTL_SECONDS) =>
        (last.ret <=> last.arg2 = LastRec.otp)

\* C7, amended: with a live, unexpired challenge verify_otp succeeds exactly
\* when the input, its leading and trailing whitespace removed, equals the
\* stored code.
C7_TrimmedMatch ==
    (last.op = "verify_otp" /\ last.pre # {} /\ LastAge <= OTP_TTL_SECONDS) =>
        (last.ret <=>
            \E a, b \in 0..Len(last.arg2) :
                /\ a + Len(LastRec.otp) + b = Len(last.arg2)
                /\ \A i \in 1..a : last.arg2[i] \in WhitespaceChars
                /\ \A i \in 1..b : last.arg2[a + Len(LastRec.otp) + i] \in WhitespaceChars
                /\ SubSeq(last.arg2, a + 1, a + Len(LastRec.otp)) = LastRec.otp)

\* A code typed with blanks around it was accepted.
C7_Witness ==
    /\ last.op = "verify_otp" /\ last.ret
    /\ last.arg2 # LastRec.otp

------------------------------------------------------------------------------
(* Properties of the security question                                      *)

\* x and a differ only in letter case and in leading or trailing whitespace:
\* each is a run of whitespace, a core, a run of whitespace, and the two cores
\* agree character by character once case is ignored.
SameButCaseAndPadding(x, a) ==
    \E x1 \in 0..Len(x), a1 \in 0..Len(a) :
        \E n \in 0..Len(x) :
            /\ x1 + n <= Len(x) /\ a1 + n <= Len(a)
            /\ \A i \in 1..Len(x) : (i <= x1 \/ i > x1 + n) => x[i] \in WhitespaceChars
            /\ \A i \in 1..Len(a) : (i <= a1 \/ i > a1 + n) => a[i] \in WhitespaceChars
            /\ \A i \in 1..n : LowerChar(x[x1 + i]) = LowerChar(a[a1 + i])

\* C8: against the answer last registered for a username,
\* verify_security_answer succeeds for every input that differs from it only
\* in letter case or surrounding whitespace, and fails for every input whose
\* lowercased, trimmed form differs from that of the registered answer.
C8_AnswerNormalization ==
    (last.op = "verify_security_answer" /\ last.arg1 \in DOMAIN answer_set) =>
        /\ SameButCaseAndPadding(last.arg2, answer_set[last.arg1]) => last.ret
        /\ Strip(Lower(last.arg2)) # Strip(Lower(answer_set[last.arg1])) => ~last.ret
        /\ last.ret => SameButCaseAndPadding(last.arg2, answer_set[last.arg1])

\* An answer registered in capitals between blanks is verified by the same
\* word typed in another case without the blanks.
C8_Witness ==
    /\ last.op = "verify_security_answer" /\ last.ret
    /\ last.arg2 = Blue
    /\ answer_set[last.arg1] # Blue

\* C9: there is at most one profile per username; set_security_question
\* replaces question and answer together; verify_security_answer succeeds
\* exactly when the username has a profile and the input normalizes to the
\* answer most recently registered; and the profile is changed by nothing but
\* set_security_question: not by time, not by verifications.
C9_ProfileReplacedAndPersistent ==
    /\ [](/\ \A r1, r2 \in admin_security : r1.username = r2.username => r1 = r2
          /\ AccountNames(admin_security) = DOMAIN answer_set
          /\ last.op = "verify_security_answer" =>
                (last.ret <=>
                    (/\ last.pre # {}
                     /\ last.arg1 \in DOMAIN answer_set
                     /\ Strip(Lower(last.arg2)) = Strip(Lower(answer_set[last.arg1]))))
          /\ last.op = "set_security_question" =>
                SecurityRows(last.arg1) =
                    {[username |-> last.arg1, question |-> last.ret,
                      answer_hash |-> hash_password(Strip(Lower(last.arg2)))]})
    /\ [][last'.op # "set_security_question" => admin_security' = admin_security]_vars

\* Time has passed, the answer has been replaced, and the replaced answer is
\* refused.
C9_Witness ==
    /\ last.op = "verify_security_answer" /\ ~last.ret /\ last.pre # {}
    /\ last.arg2 = Blue /\ answer_set[last.arg1] = Rex
    /\ now > OTP_TTL_SECONDS

------------------------------------------------------------------------------
(* Properties of the student login                                          *)

\* s is a date written DD-MM-YYYY: two digits, two digits and four digits
\* between dashes, naming a day of the calendar.
IsDDMMYYYY(s) ==
    /\ Len(s) = 10
    /\ s[3] = "-" /\ s[6] = "-"
    /\ \A i \in {1, 2, 4, 5, 7, 8, 9, 10} : IsDigit(s[i])
    /\ IntOf(SubSeq(s, 7, 10)) >= 1
    /\ IntOf(SubSeq(s, 4, 5)) \in 1..12
    /\ IntOf(SubSeq(s, 1, 2)) \in
          1..DaysInMonth(IntOf(SubSeq(s, 7, 10)), IntOf(SubSeq(s, 4, 5)))

\* C10: when roll and DOB are both given, a DOB that is not a zero-padded
\* DD-MM-YYYY date is rejected as malformed, whether or not the roll exists;
\* a well-formed DOB with a roll that has no record fails as not found; and
\* for an existing student the login succeeds exactly when the stored DOB
\* equals the trimmed input.
C10_StudentIdentityCheck ==
    (last.op = "student_login" /\ last.ret # "missing") =>
        /\ ~IsDDMMYYYY(Strip(last.arg2)) => last.ret = "malformed"
        /\ (IsDDMMYYYY(Strip(last.arg2)) /\ last.pre = {}) => last.ret = "not_found"
        /\ (IsDDMMYYYY(Strip(last.arg2)) /\ last.pre # {}) =>
              (last.ret = "success" <=> LastRec.dob = Strip(last.arg2))


-------------------------------------------------------------------------------
(* Properties of the result of a student                                    *)

Abs(n) == IF n < 0 THEN -n ELSE n

\* C11: get_student_result(roll) returns None exactly when no student record
\* has that roll; otherwise its count, total and total_possible are those of
\* the grade entries stored for the roll at the time of the call, which is
\* what the history of additions, updates and deletions adds up to, and its
\* percentage is total / total_possible * 100 rounded to 2 decimals when
\* total_possible > 0, and 0 otherwise.
C11_ResultAggregation ==
    last.op = "get_student_result" =>
        /\ (last.ret = None) <=> (StudentRows(last.arg1) = {})
        /\ last.ret # None =>
               LET res == last.ret[1]
                   t   == TallyOf(last.arg1)
               IN  /\ res.count = t.count
                   /\ res.total = t.total
                   /\ res.total_possible = t.total_possible
                   /\ IF res.total_possible > 0
                      THEN 2 * Abs(res.percentage * res.total_possible
                                       - res.total * 10000) <= res.total_possible
                      ELSE res.percentage = 0

\* The entries {72/80, 42/50} give total 114, total_possible 130 and
\* percentage 87.69.
C11_Example ==
    /\ last.op = "get_student_result"
    /\ last.ret # None
    /\ {<<m.marks, m.max_marks>> : m \in last.ret[1].marks} = {<<72, 80>>, <<42, 50>>}
    /\ last.ret[1].count = 2
    /\ last.ret[1].total = 114
    /\ last.ret[1].total_possible = 130
    /\ last.ret[1].percentage = 8769

\* C14: after delete_student(roll) no marks row with that roll remains in
\* the store, so that a student added again with the same roll starts with
\* no entries.
C14_DeleteStudentRemovesMarks ==
    (last.op = "delete_student" /\ last.pre # {}) => MarkRows(last.arg1) = {}


-------------------------------------------------------------------------------
(* Properties of the pages                                                  *)

PanelOps ==
    {"add_student", "add_student_required", "add_student_malformed", "add_mark",
     "add_mark_required", "update_mark", "delete_mark", "delete_student",
     "delete_student_required", "set_admin_email", "set_security_question",
     "save_security_question_required", "change_admin_password",
     "change_password_refused", "logout"}

AdminLoginOps == {"login_quick", "login_password", "login_otp", "login_security_answer"}

\* What the verifier of an admin login returns in the state the button is
\* pressed in.
AdminVerifier(op, a1, a2) ==
    CASE op = "login_otp" -> verify_otp(a1, a2)
      [] op = "login_security_answer" -> verify_security_answer(a1, a2)
      [] OTHER -> verify_admin(a1, a2)

\* C12: the operations of the Admin Panel run only while admin_logged_in is
\* true, and admin_logged_in becomes true only in the step of a verify_admin,
\* verify_otp or verify_security_answer that returns true; the Student
\* Dashboard calls get_student_result only while student_logged_in is true and
\* for the roll of the session, and student_logged_in becomes true only in the
\* step of a roll + DOB check that succeeds, with the roll that was checked.
C12_SessionGating ==
    [][ /\ last'.op \in PanelOps => admin_logged_in
        /\ (~admin_logged_in /\ admin_logged_in') =>
              /\ last'.op \in AdminLoginOps
              /\ last'.ret = TRUE
              /\ AdminVerifier(last'.op, last'.arg1, last'.arg2)
              /\ admin_username' = last'.arg1
        /\ last'.op = "get_student_result" =>
              /\ student_logged_in
              /\ last'.arg1 = student_roll
        /\ (student_roll' # student_roll /\ student_logged_in') =>
              /\ last'.op = "student_login"
              /\ last'.ret = "success"
              /\ student_login(last'.arg1, last'.arg2) = "success"
              /\ student_roll' = Strip(last'.arg1)
        /\ (~student_logged_in /\ student_logged_in') => student_roll' # student_roll
      ]_vars

C12_Witness ==
    /\ last.op = "get_student_result"
    /\ student_logged_in
    /\ last.arg1 = student_roll
    /\ admin_logged_in
    /\ admin_username = "admin"
    /\ marks # {}

FailedLogin ==
    \/ last.op \in AdminLoginOps /\ last.ret = FALSE
    \/ last.op = "student_login" /\ last.ret # "success"

\* C15: a login that fails (password, one-time code, security answer, roll +
\* DOB) leaves the session flags and names, the admins and admin_security
\* tables and every live one-time code as they were; the one change a failing
\* login makes is to discard the one-time code it found expired.
C15_FailedLoginChangesNothing ==
    [][FailedLogin' =>
          /\ UNCHANGED <<adminSessionVars, studentSessionVars, dbVars, sq_loaded,
                         marksVars, startupVars, now>>
          /\ \A u \in DOMAIN otp_state :
                \/ u \in DOMAIN otp_state' /\ otp_state'[u] = otp_state[u]
                \/ /\ last'.op = "login_otp"
                   /\ u = last'.arg1
                   /\ OtpExpired(otp_state[u])
          /\ DOMAIN otp_state' \subseteq DOMAIN otp_state
      ]_vars

C15_Witness ==
    /\ last.op = "login_otp"
    /\ last.ret = FALSE
    /\ last.pre # {}
    /\ ~OtpExpired(LastRec)
    /\ last.arg1 \in DOMAIN otp_state
    /\ otp_state[last.arg1] = LastRec

\* C16: while admin_logged_in is true, admin_username names a username that
\* has a row in the admins table.
C16_SessionOnlyForAccount ==
    admin_logged_in => admin_username \in AccountNames(admins)

\* C17: admin_logged_in is false exactly when admin_username is empty and
\* student_logged_in is false exactly when student_roll is empty; a logout
\* clears flag and name together; and no step changes both the admin pair and
\* the student pair.
C17_FlagAndPrincipal ==
    /\ [](admin_logged_in <=> admin_username # "")
    /\ [](student_logged_in <=> student_roll # <<>>)
    /\ [][ /\ last'.op = "logout" => (~admin_logged_in' /\ admin_username' = "")
           /\ last'.op = "logout_student" => (~student_logged_in' /\ student_roll' = <<>>)
           /\ last'.op \in AdminLoginOps \cup {"logout"} =>
                 UNCHANGED studentSessionVars
           /\ last'.op \in {"student_login", "logout_student"} =>
                 UNCHANGED adminSessionVars
           /\ adminSessionVars' = adminSessionVars
                 \/ studentSessionVars' = studentSessionVars
         ]_vars

C17_Witness ==
    /\ last.op = "logout"
    /\ ~admin_logged_in
    /\ admin_username = ""
    /\ student_logged_in
    /\ student_roll = Roll101
    /\ "guest" \in DOMAIN otp_state

\* C18: a student login succeeds only for a student whose stored DOB, trimmed,
\* passes the date-format check of the login; against a stored DOB that is
\* empty or in any other form every roll + DOB input fails.
C18_UsableStoredDob ==
    last.op = "student_login" =>
        /\ last.ret = "success" =>
              (last.pre # {} /\ StrptimeAccepts(Strip(LastRec.dob)))
        /\ (last.pre # {} /\ ~StrptimeAccepts(Strip(LastRec.dob))) =>
              last.ret # "success"

C18_Witness ==
    /\ last.op = "student_login"
    /\ last.pre # {}
    /\ LastRec.dob = Dob_2007_08_15
    /\ last.arg2 = Dob_2007_08_15
    /\ last.ret = "malformed"

\* C19: App start completes on every prior store: after it the three optional
\* columns exist and the admins table holds an account.
C19_StartupOnLegacyStore ==
    last.op = "app_start" =>
        /\ startup = "ok"
        /\ columns = OptionalColumns
        /\ admins # {}

====
